---- MODULE Spec2Model ----
(***************************************************************************)
(* The bounded-concurrency batch request engine of golang-client-server.   *)
(* Three clients live in the repository and all three are modelled:        *)
(*   "go"       src/request/request.go                                     *)
(*   "node"     src/node-request/request.js                                *)
(*   "node_old" src/unnamed/part_000 (the earlier Node client)             *)
(* Time is a discrete millisecond clock; the target server, the transport  *)
(* and the interrupt signal are the environment.                           *)
(***************************************************************************)
EXTENDS Integers, Sequences, FiniteSets, TLC

VARIABLES
    impl,         \* which client runs: "go", "node" or "node_old"
    argv,         \* the command line: [url, n, t, keepalive]
    proc,         \* the process: "Running", "Stopped" (interrupted), "Exited", "Crashed"
    pc,           \* main's position: "parse", "loop", "launch", "join", "joined"
    config,       \* the parsed configuration
    i,            \* the launch loop's index
    batchNumber,  \* go: batchNumber; node: the iteration of while (true), kept for reference
    wg,           \* go: the WaitGroup counter
    requests,     \* node: the array of promises, as the ids of their executors
    tasks,        \* the executors (goroutines / async calls) that exist
    start,        \* go: start; node: totalStartTime
    totalDuration,\* go: duration; node: totalDuration (-1 before the first batch ends)
    firstLaunch,  \* history: when the batch's first executor was launched (-1: not yet)
    started,      \* history: the batches begun so far
    lines,        \* go: the ids on the final log lines of the batch, in the order written
    conns,        \* the connections to the target that are open, and those of them that are idle
    now           \* the monotonic clock, in ms

vars == <<impl, argv, proc, pc, config, i, batchNumber, wg, requests, tasks,
          start, totalDuration, firstLaunch, now, started, lines,
          conns>>

----------------------------------------------------------------------------
(* Bounds of the model *)

MaxBatches == 2
MaxSlack == 1

(* Program constants *)

\* go: the default of the -ms flag
DefaultMs == 2000

\* The instants the clock is read at: the first MaxSlack milliseconds, and the
\* same again a default timeout later.
Times == (0..MaxSlack) \cup {DefaultMs + a : a \in 0..MaxSlack}

Impls == {"go", "node", "node_old"}

\* Command lines tried. A url is "valid", "malformed" or "absent"; the numeric
\* arguments are strings, one character per element.
UrlArgs == {"valid", "malformed", "absent"}
NArgs == { <<"1">>, <<"2">>, <<"0">>, <<"-", "1">>, <<"2", "x">>, <<"x">> }
LiveNArgs == { <<"1">>, <<"2">> }
TArgs == { <<"1">>, <<"0">>, <<"x">>,
           <<"4", "2", "9", "4", "9", "6", "7", "2", "9", "6">> }

\* The HTTP statuses the target may answer with.
Statuses == {200, 500}

----------------------------------------------------------------------------
(* Numbers. A parsed number is [nan, neg, hi, lo] with magnitude            *)
(* hi * 65536 + lo, so that values beyond 32 bits stay exact.               *)

Base == 256 * 256

Digits == <<"0", "1", "2", "3", "4", "5", "6", "7", "8", "9">>

IsDigit(c) == \E k \in 1..10 : Digits[k] = c

DigitVal(c) == (CHOOSE k \in 1..10 : Digits[k] = c) - 1

NaN == [nan |-> TRUE, neg |-> FALSE, hi |-> 0, lo |-> 0]

Num(k) == [nan |-> FALSE, neg |-> k < 0,
           hi |-> (IF k < 0 THEN -k ELSE k) \div Base,
           lo |-> (IF k < 0 THEN -k ELSE k) % Base]

MulAdd(n, d) == [n EXCEPT !.hi = n.hi * 10 + (n.lo * 10 + d) \div Base,
                          !.lo = (n.lo * 10 + d) % Base]

RECURSIVE DigitPrefix(_, _, _)
\* the value of the longest run of digits of s from position k on, after acc
DigitPrefix(s, k, acc) ==
    IF k > Len(s) \/ ~IsDigit(s[k]) THEN acc
    ELSE DigitPrefix(s, k + 1, MulAdd(acc, DigitVal(s[k])))

\* JavaScript's parseInt(s, 10): an optional sign, then the leading digits;
\* NaN when there is none. What follows the digits is ignored.
parseInt(s) ==
    LET signed == Len(s) >= 1 /\ s[1] \in {"-", "+"}
        first == IF signed THEN 2 ELSE 1
    IN  IF first > Len(s) \/ ~IsDigit(s[first]) THEN NaN
        ELSE [DigitPrefix(s, first, Num(0)) EXCEPT !.neg = signed /\ s[1] = "-"]

\* Go's flag.Int value syntax (strconv.ParseInt): an optional sign and then
\* digits only, at least one; anything else is a parse error (NaN here).
goParseInt(s) ==
    LET signed == Len(s) >= 1 /\ s[1] \in {"-", "+"}
        first == IF signed THEN 2 ELSE 1
    IN  IF first > Len(s) \/ \E k \in first..Len(s) : ~IsDigit(s[k]) THEN NaN
        ELSE [DigitPrefix(s, first, Num(0)) EXCEPT !.neg = signed /\ s[1] = "-"]

isNaN(n) == n.nan

IsZero(n) == n.hi = 0 /\ n.lo = 0

\* n < 1 as JavaScript compares: false for NaN
LessThanOne(n) == ~n.nan /\ (n.neg \/ IsZero(n))

\* whether n is an integer of 0 .. 2^32 - 1
IsUint32(n) == ~n.nan /\ ~n.neg /\ n.hi < Base

\* the integer a (small) parsed number stands for
ToInt(n) == IF n.neg THEN -(n.hi * Base + n.lo) ELSE n.hi * Base + n.lo

----------------------------------------------------------------------------
NoConfig == [concurrency |-> 0, timeout |-> NaN]

\* a process that takes the interrupt and carries on
RunningThroughInterrupt == proc \in {"Running", "Stopped"}

\* the process is alive: main and its executors take steps only then
Running == proc = "Running"

\* The result an executor has produced. JavaScript leaves the keys it does not
\* set out of the object; here an absent id or httpStatus is 0 and an absent
\* reason or status is "". For a rejected promise, reason is the error's message.
\* For the Go client, state "logged" is the final log line of makeRequest and
\* status is its kind: "ERROR", "ERROR reading body", "Finished".
Pending == [state |-> "pending", status |-> "", id |-> 0, httpStatus |-> 0,
            reason |-> "", duration |-> 0]

\* The outcome view of a result, across the clients: the Go client's outcome
\* is the final log line of makeRequest.
IsOutcome(res) == res.state \in {"fulfilled", "logged"}
IsSuccess(res) == IsOutcome(res) /\ res.status \in {"success", "Finished"}
IsFailed(res) ==
    IsOutcome(res) /\ res.status \in {"failed", "ERROR", "ERROR reading body"}

\* the promise of t has settled
Settled(t) == t.res.state # "pending"

\* t has a request under way, or is about to issue one
InFlight(t) == t.pc \in {"spawned", "do", "copy", "fetch", "body"}

\* t has returned for good: its record is unreachable in the next batch
Gone(t) == t.pc \in {"settled", "done"}

\* An executor: startTime is its start timestamp (node) or the start of its
\* client.Do (go), status the status of the response it holds; both are 0 when
\* it holds none, and again once it has ended.
Task(b, id, p, st, res) ==
    [batch |-> b, id |-> id, pc |-> p, startTime |-> st, status |-> 0, res |-> res]

\* the executor t has ended with result res
End(t, p, res) == [t EXCEPT !.pc = p, !.startTime = 0, !.status = 0, !.res = res]

\* the executors of the batch main is in
Batch == {t \in tasks : t.batch = batchNumber}

Replace(t, u) == (tasks \ {t}) \cup {u}

----------------------------------------------------------------------------
(* The connections of the client's transport. c is [open, idle]: the
   connections that are open, dialing ones included, and those of them that
   wait in the pool for a next request. *)

\* go: DisableKeepAlives: !*keepalive. node: the agent given to fetch is not an
\* option fetch knows; its connections are kept alive whatever the flag says.
KeepAlives == IF impl = "go" THEN argv.keepalive ELSE TRUE

\* go: MaxConnsPerHost: *numRequests (0 or less: no limit). node: no limit set.
MaxConnsPerHost == IF impl = "go" THEN config.concurrency ELSE 0

\* go: MaxIdleConns: *numRequests (0 or less: no limit). node: no limit set.
MaxIdleConns == IF impl = "go" THEN config.concurrency ELSE 0

\* a request can have a connection: an idle one, or a new one within the limit
CanConnect(c) ==
    c.idle > 0 \/ MaxConnsPerHost <= 0 \/ c.open < MaxConnsPerHost

\* client.Do / fetch takes an idle connection, or dials a new one
Acquire(c) ==
    IF c.idle > 0 THEN [c EXCEPT !.idle = @ - 1] ELSE [c EXCEPT !.open = @ + 1]

\* a body that is never read to its end: the connection stays taken
Retain(c) == c

\* The body is read to its end (and closed): with keep-alive the connection
\* goes back to the pool if the pool has room, otherwise it is closed.
Release(c) ==
    IF KeepAlives /\ (MaxIdleConns <= 0 \/ c.idle < MaxIdleConns)
    THEN [c EXCEPT !.idle = @ + 1]
    ELSE [c EXCEPT !.open = @ - 1]

\* the request failed or was aborted: its connection is closed
Drop(c) == [c EXCEPT !.open = @ - 1]

\* the program starts, on a command line whose keep-alive flag is one of
\* keepalives
Start(keepalives) ==
    /\ impl \in Impls
    /\ argv \in [url : UrlArgs, n : NArgs, t : TArgs, keepalive : keepalives]
    /\ proc = "Running"
    /\ pc = "parse"
    /\ config = NoConfig
    /\ i = 0
    /\ batchNumber = 1
    /\ wg = 0
    /\ requests = <<>>
    /\ tasks = {}
    /\ start = 0
    /\ totalDuration = -1
    /\ firstLaunch = -1
    /\ now = 0
    /\ conns = [open |-> 0, idle |-> 0]
    /\ lines = <<>>
    /\ started = 0

\* the runs without the keep-alive flag, which is its default in each client
Init == Start({FALSE})

----------------------------------------------------------------------------
(* The environment *)

\* Time passes.
Tick ==
    /\ Running
    /\ \E later \in Times :
          /\ later > now
          /\ now' = later
    /\ UNCHANGED <<impl, argv, proc, pc, config, i, batchNumber, wg, requests,
                   tasks, start, totalDuration, firstLaunch, started, lines,
                   conns>>

\* An idle connection is closed: by the target, or by the transport when it
\* has been idle for its timeout (go: IdleConnTimeout, 30 s).
IdleConnClose ==
    /\ Running
    /\ conns.idle > 0
    /\ conns' = [open |-> conns.open - 1, idle |-> conns.idle - 1]
    /\ UNCHANGED <<impl, argv, proc, pc, config, i, batchNumber, wg, requests,
                   tasks, start, totalDuration, firstLaunch, now, started, lines>>

\* The interrupt (Ctrl+C). Neither client installs a handler, so the process
\* ends where it stands.
Cancel ==
    /\ Running
    /\ proc' = "Stopped"
    /\ UNCHANGED <<impl, argv, pc, config, i, batchNumber, wg, requests, tasks,
                   start, totalDuration, now, firstLaunch, started, lines,
                   conns>>

----------------------------------------------------------------------------
(* Node clients: getArgs *)

\* new URL(values.url) accepts the url
UrlValid(u) == u = "valid"

getArgsConfig == [concurrency |-> parseInt(argv.n), timeout |-> parseInt(argv.t)]

\* the checks of getArgs that throw, each ending in process.exit(1)
getArgsRejects ==
    \/ argv.url = "absent"
    \/ ~UrlValid(argv.url)
    \/ isNaN(getArgsConfig.concurrency) \/ LessThanOne(getArgsConfig.concurrency)
    \/ isNaN(getArgsConfig.timeout) \/ LessThanOne(getArgsConfig.timeout)

getArgs ==
    /\ Running
    /\ impl \in {"node", "node_old"}
    /\ pc = "parse"
    /\ IF getArgsRejects
       THEN /\ proc' = "Exited"
            /\ UNCHANGED <<pc, config>>
       ELSE /\ config' = [concurrency |-> ToInt(getArgsConfig.concurrency),
                          timeout |-> getArgsConfig.timeout]
            /\ pc' = "loop"
            /\ UNCHANGED proc
    /\ UNCHANGED <<impl, argv, i, batchNumber, wg, requests, tasks, start,
                   totalDuration, now, firstLaunch, started, lines, conns>>

----------------------------------------------------------------------------
(* Node clients: singleRequest *)

\* Building fetchOptions throws. node_old calls AbortController.timeout, which
\* is not a function; node calls AbortSignal.timeout, which takes a delay of
\* 0 .. 2^32 - 1 only.
OptionsThrow ==
    IF impl = "node_old" THEN TRUE ELSE ~IsUint32(config.timeout)

OptionsError ==
    IF impl = "node_old" THEN "AbortController.timeout is not a function"
    ELSE "The value of \"delay\" is out of range."

Rejected(msg) == [Pending EXCEPT !.state = "rejected", !.reason = msg]

Failed(id, reason, dur) ==
    [state |-> "fulfilled", status |-> "failed", id |-> id, httpStatus |-> 0,
     reason |-> reason, duration |-> dur]

Success(id, st, dur) ==
    [state |-> "fulfilled", status |-> "success", id |-> id, httpStatus |-> st,
     reason |-> "", duration |-> dur]

\* response.ok
Ok(st) == st >= 200 /\ st <= 299

HttpReason(st) == "HTTP " \o ToString(st)

\* The errors fetch and response.text() reject with. When the timeout signal
\* fires the rejection is the signal's reason, a TimeoutError; runtimes whose
\* fetch predates abort reasons reject with their own AbortError instead.
TimeoutError == [name |-> "TimeoutError",
                 message |-> "The operation was aborted due to timeout"]
AbortError == [name |-> "AbortError", message |-> "This operation was aborted"]
AbortReasons == {TimeoutError, AbortError}
FetchFailed == [name |-> "TypeError", message |-> "fetch failed"]
BodyFailed == [name |-> "TypeError", message |-> "terminated"]

\* the try block's end, after response.text()
Classify(t) ==
    IF ~Ok(t.status) THEN Failed(t.id, HttpReason(t.status), now - t.startTime)
    ELSE Success(t.id, t.status, now - t.startTime)

\* the catch block
Catch(t, error) ==
    Failed(t.id,
           IF error.name = "AbortError" THEN "Timeout" ELSE error.message,
           now - t.startTime)

\* the call singleRequest(id, ...) up to its first await
singleRequest(id) ==
    IF OptionsThrow THEN Task(batchNumber, id, "settled", 0, Rejected(OptionsError))
    ELSE Task(batchNumber, id, "fetch", now, Pending)

\* a single timer for the batch, running since its first launch
TimedOutOnBatchClock(t) == now - firstLaunch >= ToInt(config.timeout)

\* the signal of AbortSignal.timeout(timeout) has fired
TimedOut(t) == now - t.startTime >= ToInt(config.timeout)

\* Callbacks run only while main is suspended in its await.
NodeTurn(t) ==
    /\ Running
    /\ impl \in {"node", "node_old"}
    /\ pc = "join"
    /\ t \in tasks

\* the target answers: fetch resolves with a response
NodeRespond(t, st) ==
    /\ NodeTurn(t)
    /\ t.pc = "fetch"
    /\ tasks' = Replace(t, [t EXCEPT !.pc = "body", !.status = st])
    /\ UNCHANGED <<impl, argv, proc, pc, config, i, batchNumber, wg, requests,
                   start, totalDuration, now, firstLaunch, started, lines,
                   conns>>

\* the body is read to its end: the try block completes
NodeBodyDone(t) ==
    /\ NodeTurn(t)
    /\ t.pc = "body"
    /\ tasks' = Replace(t, End(t, "settled", Classify(t)))
    /\ conns' = Release(conns)
    /\ UNCHANGED <<impl, argv, proc, pc, config, i, batchNumber, wg, requests,
                   start, totalDuration, now, firstLaunch, started, lines>>

\* the transport fails, in fetch or in response.text()
NodeError(t) ==
    /\ NodeTurn(t)
    /\ t.pc \in {"fetch", "body"}
    /\ tasks' = Replace(t, End(t, "settled",
                   Catch(t, IF t.pc = "fetch" THEN FetchFailed ELSE BodyFailed)))
    /\ conns' = Drop(conns)
    /\ UNCHANGED <<impl, argv, proc, pc, config, i, batchNumber, wg, requests,
                   start, totalDuration, now, firstLaunch, started, lines>>

\* the timeout signal aborts the request
NodeTimeout(t, error) ==
    /\ NodeTurn(t)
    /\ t.pc \in {"fetch", "body"}
    /\ TimedOut(t)
    /\ tasks' = Replace(t, End(t, "settled", Catch(t, error)))
    /\ conns' = Drop(conns)
    /\ UNCHANGED <<impl, argv, proc, pc, config, i, batchNumber, wg, requests,
                   start, totalDuration, now, firstLaunch, started, lines>>

----------------------------------------------------------------------------
(* Node clients: main *)

\* a join that resolves with the first promise to settle, as Promise.race does
AnySettled == \E k \in 1..Len(requests) :
                 \E t \in Batch : t.id = requests[k] /\ Settled(t)

\* Promise.allSettled(requests) has resolved
AllSettled == \A k \in 1..Len(requests) :
                 \A t \in Batch : t.id = requests[k] => Settled(t)

\* a loop that goes on only while no request has failed
LoopUntilFailure == \A t \in tasks : ~IsFailed(t.res)

\* while (true)
LoopCond == TRUE

\* const requests = []; the executors of the batch before are out of reach
NodeBatchBegin ==
    /\ Running
    /\ impl \in {"node", "node_old"}
    /\ pc = "loop"
    /\ LoopCond
    /\ batchNumber <= MaxBatches
    /\ requests' = <<>>
    /\ i' = 0
    /\ tasks' = {t \in tasks : ~Gone(t)}
    /\ firstLaunch' = -1
    /\ started' = started + 1
    /\ pc' = "launch"
    /\ UNCHANGED <<impl, argv, proc, config, batchNumber, wg, start,
                   totalDuration, now, lines, conns>>

\* a launch that puts the new promise in front: requests.unshift(...)
NodeLaunchInFront ==
    /\ Running
    /\ impl \in {"node", "node_old"}
    /\ pc = "launch"
    /\ i < config.concurrency
    /\ tasks' = tasks \cup {singleRequest(i + 1)}
    /\ requests' = <<i + 1>> \o requests
    /\ i' = i + 1
    /\ firstLaunch' = IF i = 0 THEN now ELSE firstLaunch
    /\ conns' = IF OptionsThrow THEN conns ELSE Acquire(conns)
    /\ UNCHANGED <<impl, argv, proc, pc, config, batchNumber, wg, start,
                   totalDuration, now, started, lines>>

\* requests.push(singleRequest(i + 1, config.url, config))
NodeLaunch ==
    /\ Running
    /\ impl \in {"node", "node_old"}
    /\ pc = "launch"
    /\ i < config.concurrency
    /\ tasks' = tasks \cup {singleRequest(i + 1)}
    /\ requests' = Append(requests, i + 1)
    /\ i' = i + 1
    /\ firstLaunch' = IF i = 0 THEN now ELSE firstLaunch
    /\ conns' = IF OptionsThrow THEN conns ELSE Acquire(conns)
    /\ UNCHANGED <<impl, argv, proc, pc, config, batchNumber, wg, start,
                   totalDuration, now, started, lines>>

\* const totalStartTime = hrtime.bigint(); then main awaits
NodeAwait ==
    /\ Running
    /\ impl \in {"node", "node_old"}
    /\ pc = "launch"
    /\ ~(i < config.concurrency)
    /\ start' = now
    /\ pc' = "join"
    /\ UNCHANGED <<impl, argv, proc, config, i, batchNumber, wg, requests, tasks,
                   totalDuration, now, firstLaunch, started, lines, conns>>

\* the await returns: totalEndTime, totalDuration, the Total Time line
NodeJoin ==
    /\ Running
    /\ impl \in {"node", "node_old"}
    /\ pc = "join"
    /\ AllSettled
    /\ totalDuration' = now - start
    /\ pc' = "joined"
    /\ UNCHANGED <<impl, argv, proc, config, i, batchNumber, wg, requests, tasks,
                   start, now, firstLaunch, started, lines, conns>>

----------------------------------------------------------------------------
(* Go client *)

\* http.NewRequest parses the url
NewRequestOk(u) == u # "malformed"

\* flag.Parse: a value that is no integer ends the process (ExitOnError).
\* duration was computed from *ms before flag.Parse, so it is the default's.
flagParse ==
    /\ Running
    /\ impl = "go"
    /\ pc = "parse"
    /\ IF isNaN(goParseInt(argv.n)) \/ isNaN(goParseInt(argv.t))
       THEN /\ proc' = "Exited"
            /\ UNCHANGED <<pc, config>>
       ELSE /\ config' = [concurrency |-> ToInt(goParseInt(argv.n)),
                          timeout |-> Num(DefaultMs)]
            /\ pc' = "loop"
            /\ UNCHANGED proc
    /\ UNCHANGED <<impl, argv, i, batchNumber, wg, requests, tasks, start,
                   totalDuration, now, firstLaunch, started, lines, conns>>

\* the top of the loop body: the "Starting Batch" line; var wg sync.WaitGroup;
\* start := time.Now()
GoBatchBegin ==
    /\ Running
    /\ impl = "go"
    /\ pc = "loop"
    /\ LoopCond
    /\ batchNumber <= MaxBatches
    /\ wg' = 0
    /\ start' = now
    /\ i' = 0
    /\ tasks' = {t \in tasks : ~Gone(t)}
    /\ firstLaunch' = -1
    /\ started' = started + 1
    /\ lines' = <<>>
    /\ pc' = "launch"
    /\ UNCHANGED <<impl, argv, proc, config, batchNumber, requests,
                   totalDuration, now, conns>>

\* a launch loop that runs once more: i <= *numRequests
GoLaunchOneMore ==
    /\ Running
    /\ impl = "go"
    /\ pc = "launch"
    /\ i <= config.concurrency
    /\ wg' = wg + 1
    /\ tasks' = tasks \cup {Task(batchNumber, i + 1, "spawned", 0, Pending)}
    /\ i' = i + 1
    /\ firstLaunch' = IF i = 0 THEN now ELSE firstLaunch
    /\ UNCHANGED <<impl, argv, proc, pc, config, batchNumber, requests, start,
                   totalDuration, now, started, lines, conns>>

\* wg.Add(1); go makeRequest(client, *url, i+1, &wg)
GoLaunch ==
    /\ Running
    /\ impl = "go"
    /\ pc = "launch"
    /\ i < config.concurrency
    /\ wg' = wg + 1
    /\ tasks' = tasks \cup {Task(batchNumber, i + 1, "spawned", 0, Pending)}
    /\ i' = i + 1
    /\ firstLaunch' = IF i = 0 THEN now ELSE firstLaunch
    /\ UNCHANGED <<impl, argv, proc, pc, config, batchNumber, requests, start,
                   totalDuration, now, started, lines, conns>>

\* the launch loop ends; main enters wg.Wait()
GoWaitBegin ==
    /\ Running
    /\ impl = "go"
    /\ pc = "launch"
    /\ ~(i < config.concurrency)
    /\ pc' = "join"
    /\ UNCHANGED <<impl, argv, proc, config, i, batchNumber, wg, requests, tasks,
                   start, totalDuration, now, firstLaunch, started, lines,
                   conns>>

\* a Wait that returns one Done early
WaitReturnsEarly == wg <= 1

\* wg.Wait() returns
WaitReturns == wg = 0

\* duration := time.Since(start); the "All requests completed" line
GoWait ==
    /\ Running
    /\ impl = "go"
    /\ pc = "join"
    /\ WaitReturns
    /\ totalDuration' = now - start
    /\ pc' = "joined"
    /\ UNCHANGED <<impl, argv, proc, config, i, batchNumber, wg, requests, tasks,
                   start, now, firstLaunch, started, lines, conns>>

\* the final log line of makeRequest: its kind, the error or status it prints
Logged(id, kind, st, err) ==
    [state |-> "logged", status |-> kind, id |-> id, httpStatus |-> st,
     reason |-> err, duration |-> 0]

\* The errors client.Do and io.Copy return.
ConnRefused == "connect: connection refused"
DoDeadline == "context deadline exceeded (Client.Timeout exceeded while awaiting headers)"
UnexpectedEOF == "unexpected EOF"
CopyDeadline == "context deadline exceeded (Client.Timeout or context cancellation while reading body)"

GoTurn(t) ==
    /\ Running
    /\ impl = "go"
    /\ t \in tasks

\* The goroutine runs up to client.Do. With a url http.NewRequest rejects, req
\* is nil and req.Header.Add panics: the deferred wg.Done runs as the goroutine
\* unwinds, and main may go on until the panic ends the process (GoCrash).
GoStart(t) ==
    /\ GoTurn(t)
    /\ t.pc = "spawned"
    /\ IF NewRequestOk(argv.url)
       THEN /\ CanConnect(conns)
            /\ tasks' = Replace(t, [t EXCEPT !.pc = "do", !.startTime = now])
            /\ conns' = Acquire(conns)
            /\ UNCHANGED wg
       ELSE /\ tasks' = Replace(t, [t EXCEPT !.pc = "panicking"])
            /\ wg' = wg - 1
            /\ UNCHANGED conns
    /\ UNCHANGED <<impl, argv, proc, pc, config, i, batchNumber, requests, start,
                   totalDuration, now, firstLaunch, started, lines>>

\* the unrecovered panic ends the process
GoCrash(t) ==
    /\ GoTurn(t)
    /\ t.pc = "panicking"
    /\ proc' = "Crashed"
    /\ UNCHANGED <<impl, argv, pc, config, i, batchNumber, wg, requests, tasks,
                   start, totalDuration, now, firstLaunch, started, lines,
                   conns>>

\* client.Do returns a response
GoRespond(t, st) ==
    /\ GoTurn(t)
    /\ t.pc = "do"
    /\ tasks' = Replace(t, [t EXCEPT !.pc = "copy", !.status = st])
    /\ UNCHANGED <<impl, argv, proc, pc, config, i, batchNumber, wg, requests,
                   start, totalDuration, now, firstLaunch, started, lines,
                   conns>>

\* Client.Timeout has run out (0 means no timeout)
GoTimedOut(t) ==
    /\ ToInt(config.timeout) > 0
    /\ now - t.startTime >= ToInt(config.timeout)

\* a return that skips wg.Done
GoReturnWithoutDone(t, res) ==
    /\ tasks' = Replace(t, End(t, "done", res))
    /\ lines' = Append(lines, res.id)
    /\ conns' = IF res.status = "Finished" THEN Release(conns) ELSE Drop(conns)
    /\ UNCHANGED <<impl, argv, proc, pc, config, i, batchNumber, wg, requests,
                   start, totalDuration, now, firstLaunch, started>>

\* makeRequest returns after logging res; the deferred wg.Done runs
GoReturn(t, res) ==
    /\ tasks' = Replace(t, End(t, "done", res))
    /\ wg' = wg - 1
    /\ lines' = Append(lines, res.id)
    /\ conns' = IF res.status = "Finished" THEN Release(conns) ELSE Drop(conns)
    /\ UNCHANGED <<impl, argv, proc, pc, config, i, batchNumber, requests,
                   start, totalDuration, now, firstLaunch, started>>

\* client.Do returns the transport's error
GoDoError(t) ==
    /\ GoTurn(t)
    /\ t.pc = "do"
    /\ GoReturn(t, Logged(t.id, "ERROR", 0, ConnRefused))

\* client.Do returns the timeout's error
GoDoTimeout(t) ==
    /\ GoTurn(t)
    /\ t.pc = "do"
    /\ GoTimedOut(t)
    /\ GoReturn(t, Logged(t.id, "ERROR", 0, DoDeadline))

\* io.Copy returns the transport's error
GoCopyError(t) ==
    /\ GoTurn(t)
    /\ t.pc = "copy"
    /\ GoReturn(t, Logged(t.id, "ERROR reading body", 0, UnexpectedEOF))

\* io.Copy returns the timeout's error
GoCopyTimeout(t) ==
    /\ GoTurn(t)
    /\ t.pc = "copy"
    /\ GoTimedOut(t)
    /\ GoReturn(t, Logged(t.id, "ERROR reading body", 0, CopyDeadline))

\* the body is drained: the "Finished with status" line
GoFinish(t) ==
    /\ GoTurn(t)
    /\ t.pc = "copy"
    /\ GoReturn(t, Logged(t.id, "Finished", t.status, ""))

----------------------------------------------------------------------------
(* Both: the end of the loop body. go: batchNumber++ *)

\* a loop that numbers its batches in steps of two
NextBatchSkipping ==
    /\ Running
    /\ pc = "joined"
    /\ batchNumber' = batchNumber + 2
    /\ pc' = "loop"
    /\ UNCHANGED <<impl, argv, proc, config, i, wg, requests, tasks, start,
                   totalDuration, now, firstLaunch, started, lines, conns>>

NextBatch ==
    /\ Running
    /\ pc = "joined"
    /\ batchNumber' = batchNumber + 1
    /\ pc' = "loop"
    /\ UNCHANGED <<impl, argv, proc, config, i, wg, requests, tasks, start,
                   totalDuration, now, firstLaunch, started, lines, conns>>

MainStep ==
    \/ getArgs \/ NodeBatchBegin \/ NodeLaunch \/ NodeAwait \/ NodeJoin
    \/ flagParse \/ GoBatchBegin \/ GoLaunch \/ GoWaitBegin \/ GoWait
    \/ NextBatch

NodeStep ==
    \/ \E t \in tasks, st \in Statuses : NodeRespond(t, st)
    \/ \E t \in tasks : NodeBodyDone(t)
    \/ \E t \in tasks : NodeError(t)
    \/ \E t \in tasks, error \in AbortReasons : NodeTimeout(t, error)

GoStep ==
    \/ \E t \in tasks : GoStart(t)
    \/ \E t \in tasks : GoCrash(t)
    \/ \E t \in tasks, st \in Statuses : GoRespond(t, st)
    \/ \E t \in tasks : GoDoError(t)
    \/ \E t \in tasks : GoDoTimeout(t)
    \/ \E t \in tasks : GoCopyError(t)
    \/ \E t \in tasks : GoCopyTimeout(t)
    \/ \E t \in tasks : GoFinish(t)

\* the timeout of executor t runs out and ends its request
TimeoutExpires(t) ==
    \/ \E error \in AbortReasons : NodeTimeout(t, error)
    \/ GoDoTimeout(t)
    \/ GoCopyTimeout(t)

Next == MainStep \/ NodeStep \/ GoStep \/ Tick \/ IdleConnClose \/ Cancel

Spec == Init /\ [][Next]_vars
----------------------------------------------------------------------------
(* Properties *)


\* C1: once the join of a batch with concurrency N >= 1 has completed, the
\* batch has launched exactly N executors, with ids 1..N, and each id has
\* yielded exactly one outcome carrying that id.
C1_BatchYieldsAllIds ==
    (pc = "joined" /\ config.concurrency >= 1) =>
        /\ Cardinality(Batch) = config.concurrency
        /\ \A k \in 1..config.concurrency :
              \E t \in Batch : t.id = k /\ IsOutcome(t.res) /\ t.res.id = k

\* C2: main is past its join only when every executor the batch launched has
\* settled, whatever the others ended with.
C2_SettleAll ==
    pc = "joined" =>
        /\ Cardinality(Batch) = (IF config.concurrency > 0 THEN config.concurrency ELSE 0)
        /\ \A t \in Batch : ~InFlight(t)

\* a batch of two is joined with one request failed and the other succeeded
C2_Witness ==
    /\ pc = "joined"
    /\ \E t, u \in Batch : IsFailed(t.res) /\ IsSuccess(u.res)

\* C3: every executor with a request under way belongs to the batch main is
\* in: no executor of a later batch is launched while one of an earlier batch
\* is in flight.
C3_BatchesSequential ==
    \A t \in tasks : InFlight(t) => t.batch = batchNumber

\* the second batch has an executor in flight
C3_Witness ==
    /\ batchNumber = 2
    /\ \E t \in tasks : InFlight(t) /\ t.batch = 2 /\ t.pc \in {"do", "fetch"}

\* C4: when the timeout signal aborts a request, the request settles as Failed
\* with reason exactly "Timeout", no earlier than the timeout after its start.
C4_TimeoutReason ==
    [][\A t \in tasks, error \in AbortReasons :
          NodeTimeout(t, error) =>
              \E u \in tasks' :
                  /\ u.batch = t.batch /\ u.id = t.id
                  /\ IsFailed(u.res)
                  /\ u.res.reason = "Timeout"
                  /\ u.res.duration >= ToInt(config.timeout)]_vars

\* C5: no call of singleRequest ends in a rejected promise.
C5_NeverRejects ==
    \A t \in tasks : t.res.state # "rejected"
\* C6: when the exchange and the body read succeed, a status outside 2xx yields
\* Failed with reason "HTTP <status>", and a 2xx status yields Success with
\* that httpStatus.
C6_StatusClassification ==
    [][\A t \in tasks :
          (NodeBodyDone(t) \/ GoFinish(t)) =>
              \E u \in tasks' :
                  /\ u.batch = t.batch /\ u.id = t.id
                  /\ IF Ok(t.status)
                     THEN IsSuccess(u.res) /\ u.res.httpStatus = t.status
                     ELSE IsFailed(u.res) /\ u.res.reason = HttpReason(t.status)]_vars

\* C7: once the process is Stopped it stays Stopped, batchNumber does not
\* change and no executor is launched or moves.
C7_StoppedIsFinal ==
    [][proc = "Stopped" =>
          /\ proc' = "Stopped"
          /\ batchNumber' = batchNumber
          /\ tasks' = tasks
          /\ pc' = pc]_vars

\* the interrupt arrived in the middle of a batch
C7_Witness ==
    /\ proc = "Stopped"
    /\ pc = "join"
    /\ \E t \in Batch : InFlight(t)

\* C8: while no interrupt arrives, after every completed batch (every executor
\* has returned), whatever its requests ended with, the next batch is started.
C8_NextBatchStarts ==
    \A k \in 1..(MaxBatches - 1) :
        (Running /\ pc = "joined" /\ batchNumber = k /\ \A t \in tasks : Gone(t))
            ~> (proc = "Stopped" \/ (batchNumber = k + 1 /\ pc = "launch"))

\* a batch of two is complete and both requests failed
C8_Witness ==
    /\ Running
    /\ pc = "joined"
    /\ batchNumber < MaxBatches
    /\ Cardinality(Batch) = 2
    /\ \A t \in Batch : IsFailed(t.res)

\* the command line gives a concurrency or a timeout that is not a number or
\* is below 1, as the client reads numbers
ArgInvalid ==
    LET n == IF impl = "go" THEN goParseInt(argv.n) ELSE parseInt(argv.n)
        t == IF impl = "go" THEN goParseInt(argv.t) ELSE parseInt(argv.t)
    IN  isNaN(n) \/ LessThanOne(n) \/ isNaN(t) \/ LessThanOne(t)

\* C9: with an invalid concurrency or timeout the program never enters the
\* batch loop: no batch is begun and no executor launched.
C9_FailFast ==
    ArgInvalid => (pc \notin {"launch", "join", "joined"} /\ tasks = {})

\* C10: the batch's start timestamp is no later than the launch of its first
\* executor.
C10_WindowOpensBeforeLaunch ==
    (pc \in {"join", "joined"} /\ firstLaunch >= 0) => start <= firstLaunch

\* C11: a timeout runs out for executor t only when the configured time has
\* passed since t's own start, and the step that ends t's request leaves every
\* other executor, its request and its result as they were.
C11_TimeoutsIndependent ==
    [][\A t \in tasks :
          TimeoutExpires(t) =>
              /\ now - t.startTime >= ToInt(config.timeout)
              /\ \A u \in tasks \ {t} : u \in tasks'
              /\ \A u \in tasks' :
                    u \in tasks \/ (u.batch = t.batch /\ u.id = t.id)]_vars

\* one request of a batch has timed out and its sibling is still under way
C11_Witness ==
    \E t, u \in Batch :
        /\ IsFailed(t.res)
        /\ t.res.reason \in {"Timeout", TimeoutError.message, DoDeadline, CopyDeadline}
        /\ InFlight(u)
        /\ u.pc \in {"fetch", "body", "do", "copy"}

\* C12: every outcome a call of singleRequest resolves with is well formed: its
\* duration is not negative; a success carries a status of 200..299 and no
\* reason; a failure carries no status and one reason, which is "Timeout",
\* "HTTP <status>" or the description of a transport error.
C12_OutcomeWellFormed ==
    \A t \in tasks :
        t.res.state = "fulfilled" =>
            /\ t.res.duration >= 0
            /\ t.res.id = t.id
            /\ t.res.status \in {"success", "failed"}
            /\ t.res.status = "success" =>
                  (Ok(t.res.httpStatus) /\ t.res.reason = "")
            /\ t.res.status = "failed" =>
                  /\ t.res.httpStatus = 0
                  /\ t.res.reason \in
                        {"Timeout", FetchFailed.message, BodyFailed.message}
                            \cup {HttpReason(st) : st \in Statuses}

\* C13: once the Go client has parsed its command line, the timeout its shared
\* http.Client enforces is the value given with -ms.
C13_TimeoutIsConfigured ==
    (impl = "go" /\ pc # "parse") => config.timeout = goParseInt(argv.t)

\* C14: batchNumber is 1 until the first batch is joined; it changes only in a
\* step taken after a completed join, and then grows by exactly one; so while
\* the k-th batch begun is under way or joined, batchNumber is k.
C14_BatchNumbering ==
    /\ [](/\ batchNumber >= 1
          /\ pc \in {"launch", "join", "joined"} => batchNumber = started
          /\ pc \in {"parse", "loop"} => batchNumber = started + 1)
    /\ [][batchNumber' # batchNumber =>
             (pc = "joined" /\ batchNumber' = batchNumber + 1)]_vars

\* the second batch begun has been joined
C14_Witness ==
    /\ started = 2
    /\ batchNumber = 2
    /\ pc = "joined"
    /\ Batch # {}

\* C15: in the Go client the WaitGroup counter is never negative and equals
\* the number of goroutines of the batch that have not finished; and once every
\* goroutine of the batch has returned, wg.Wait returns unless the process is
\* interrupted first.
C15_JoinCompletes ==
    /\ [](impl = "go" =>
            /\ wg >= 0
            /\ wg = Cardinality({t \in Batch : InFlight(t)}))
    /\ ((impl = "go" /\ pc = "join" /\ \A t \in Batch : Gone(t))
            ~> (pc = "joined" \/ proc = "Stopped"))

\* main is in wg.Wait with one goroutine of two returned on an error and the
\* other still in its request
C15_Witness ==
    /\ impl = "go"
    /\ pc = "join"
    /\ wg = 1
    /\ \E t, u \in Batch :
          t.pc = "done" /\ t.res.status = "ERROR" /\ u.pc \in {"do", "copy"}

\* The sequence in which a batch's results stand when it is joined, as the
\* ids of their executors: node: the array given to Promise.allSettled, whose
\* result keeps the array's order; go: nothing is collected, the results are
\* the log lines.
ResultSequence == IF impl = "go" THEN lines ELSE requests

C17_FinalizedExactlyOnce ==
    \A t \in tasks :
        ~InFlight(t) =>
            /\ IsOutcome(t.res)
            /\ IsSuccess(t.res) # IsFailed(t.res)
            /\ (impl = "go" /\ t \in Batch) =>
                  Cardinality({k \in 1..Len(lines) : lines[k] = t.id}) = 1

\* C19: at every moment the number of executors with a request under way, of
\* whatever batch, is at most the configured concurrency.
C19_BoundedConcurrency ==
    Cardinality({t \in tasks : InFlight(t)})
        <= (IF config.concurrency > 0 THEN config.concurrency ELSE 0)

\* the second batch has as many requests under way as the concurrency allows
C19_Witness ==
    /\ batchNumber = 2
    /\ config.concurrency = 2
    /\ Cardinality({t \in tasks : InFlight(t)}) = 2

\* The runs with the keep-alive flag: every client and url, the command lines
\* with a valid concurrency and timeout.
KeepAliveInit == Start({TRUE}) /\ argv.n \in LiveNArgs /\ argv.t = <<"1">>

KeepAliveSpec == KeepAliveInit /\ [][Next]_vars

\* C18: with keep-alive, in every batch the open connections are never more
\* than the configured concurrency, and every open connection is idle in the
\* pool or serves a request that is under way: a request that has ended, on
\* whatever path, holds none.
C18_NoConnectionLeak ==
    /\ conns.idle >= 0
    /\ conns.open <= (IF config.concurrency > 0 THEN config.concurrency ELSE 0)
    /\ conns.open - conns.idle =
          Cardinality({t \in tasks : t.pc \in {"do", "copy", "fetch", "body"}})

\* with keep-alive, the second batch has two requests under way on the two
\* connections that are open
C18_Witness ==
    /\ argv.keepalive
    /\ batchNumber = 2
    /\ pc = "join"
    /\ conns = [open |-> 2, idle |-> 0]
    /\ Cardinality({t \in Batch : t.pc \in {"do", "copy", "fetch", "body"}}) = 2

\* The runs liveness is checked on: every client and url, the command lines
\* with a valid concurrency and timeout.
LiveInit == Init /\ argv.n \in LiveNArgs /\ argv.t = <<"1">>

\* The main thread of control is scheduled: a step of main that stays possible
\* is taken.
LiveSpec == LiveInit /\ [][Next]_vars /\ WF_vars(MainStep)
====
